---- MODULE Spec2Model ----
(***************************************************************************)
(* NullEvaluator (src/code/src/evaluation/NullEvaluator.cpp): the no-op    *)
(* Evaluator.  The model holds the evaluator objects, the global registry  *)
(* the file's static registrations fill, and the callers that invoke       *)
(* addResult, getMeasures and toString on the objects, one call at a time  *)
(* per caller and interleaved between callers.                             *)
(***************************************************************************)
EXTENDS Integers, Sequences, FiniteSets, TLC

\* ---------------------------------------------------------------- bounds
\* Longest score array a caller passes (double[] of length 0..MaxLen).
MaxLen == 1
\* Most addResult calls made on one evaluator.
MaxCalls == 3

Evaluators == {"e1", "e2"}
Callers == {"c1", "c2"}
Instances == {"i1", "i2"}
ScoreValues == {0, 1}
ScoreArrays == UNION {[1..n -> ScoreValues] : n \in 0..MaxLen}
\* What the command line gives for -f: nothing, or a frequency.
FrequencyArgs == {"", "1000"}

\* ------------------------------------------------- values of the source
\* return nullptr;  (line 42): the null Measures*.
nullptr == 0
\* return " ";  (line 46)
SingleSpace == " "
\* REGISTER_CLASS(NullEvaluator)  (line 21): the name the class is keyed by.
ClassName == "NullEvaluator"
\* The JSON document of lines 24-28, as the object it denotes.
ParameterSchema ==
    [type |-> "Evaluator",
     name |-> "NullEvaluator",
     parameter |-> [p \in {"-f"} |-> "Frequency"]]

\* The registration macros, run by the static initialisers before any
\* evaluator exists: the class factory and its command-line schema are
\* entered under the class name.
RegisterClass(reg, name, schema) ==
    [n \in DOMAIN reg \cup {name} |-> IF n = name THEN schema ELSE reg[n]]

VARIABLES
    registered,         \* the global registry: class name -> parameter schema
    cmdline,            \* the -f argument the framework parsed for each evaluator
    self,               \* the member data of every constructed evaluator
    pc,                 \* where each caller is: "idle" or inside a method
    frame,              \* the arguments of each caller's current or last call
    ret,                \* what each caller's last completed call returned
    measuresAllocated,  \* Measures objects allocated so far
    calls               \* addResult calls made on each evaluator so far

vars == <<registered, cmdline, self, pc, frame, ret, measuresAllocated, calls>>

NoFrame == [on |-> "none", instance |-> "none", scores |-> <<>>]
NoResult == [op |-> "none", value |-> "none", status |-> "none"]

Constructed == DOMAIN self

Init ==
    /\ registered = RegisterClass(<< >>, ClassName, ParameterSchema)
    /\ cmdline \in [Evaluators -> FrequencyArgs]
    /\ self = << >>
    /\ pc = [c \in Callers |-> "idle"]
    /\ frame = [c \in Callers |-> NoFrame]
    /\ ret = [c \in Callers |-> NoResult]
    /\ measuresAllocated = 0
    /\ calls = [e \in Evaluators |-> 0]

\* ------------------------------------------------------------ operations
\* NullEvaluator::NullEvaluator() { }  (lines 31-32): the factory registered
\* under ClassName builds the object; the body assigns no member.
NullEvaluator(e) ==
    /\ e \notin Constructed
    /\ ClassName \in DOMAIN registered
    /\ self' = [x \in Constructed \cup {e} |-> IF x = e THEN << >> ELSE self[x]]
    /\ UNCHANGED <<registered, cmdline, pc, frame, ret, measuresAllocated, calls>>

\* A caller enters addResult(const Instance&, double[]) on evaluator e.
CallAddResult(c, e) ==
    /\ pc[c] = "idle"
    /\ e \in Constructed
    /\ calls[e] < MaxCalls
    /\ \E i \in Instances, s \in ScoreArrays :
          frame' = [frame EXCEPT ![c] = [on |-> e, instance |-> i, scores |-> s]]
    /\ pc' = [pc EXCEPT ![c] = "addResult"]
    /\ ret' = [ret EXCEPT ![c] = NoResult]
    /\ calls' = [calls EXCEPT ![e] = @ + 1]
    /\ UNCHANGED <<registered, cmdline, self, measuresAllocated>>

\* A caller enters getMeasures() on evaluator e.
CallGetMeasures(c, e) ==
    /\ pc[c] = "idle"
    /\ e \in Constructed
    /\ frame' = [frame EXCEPT ![c] = [NoFrame EXCEPT !.on = e]]
    /\ pc' = [pc EXCEPT ![c] = "getMeasures"]
    /\ ret' = [ret EXCEPT ![c] = NoResult]
    /\ UNCHANGED <<registered, cmdline, self, measuresAllocated, calls>>

\* A caller enters toString() on evaluator e.
CallToString(c, e) ==
    /\ pc[c] = "idle"
    /\ e \in Constructed
    /\ frame' = [frame EXCEPT ![c] = [NoFrame EXCEPT !.on = e]]
    /\ pc' = [pc EXCEPT ![c] = "toString"]
    /\ ret' = [ret EXCEPT ![c] = NoResult]
    /\ UNCHANGED <<registered, cmdline, self, measuresAllocated, calls>>

\* Mutant: addResult builds a Measures object for the result it was given.
addResultAllocatesMeasures(c) ==
    /\ pc[c] = "addResult"
    /\ measuresAllocated' = measuresAllocated + 1
    /\ ret' = [ret EXCEPT ![c] =
                 [op |-> "addResult", value |-> "void", status |-> "normal"]]
    /\ pc' = [pc EXCEPT ![c] = "idle"]
    /\ UNCHANGED <<registered, cmdline, self, frame, calls>>

\* Mutant: addResult counts the results in a member of the object.
addResultCounts(c) ==
    /\ pc[c] = "addResult"
    /\ self' = [self EXCEPT ![frame[c].on] = <<Len(@) + 1>>]
    /\ ret' = [ret EXCEPT ![c] =
                 [op |-> "addResult", value |-> "void", status |-> "normal"]]
    /\ pc' = [pc EXCEPT ![c] = "idle"]
    /\ UNCHANGED <<registered, cmdline, frame, measuresAllocated, calls>>

\* Mutant: addResult clamps the first score in place.
addResultClampsScores(c) ==
    /\ pc[c] = "addResult"
    /\ frame' = [frame EXCEPT ![c].scores =
                   IF Len(@) > 0 THEN [@ EXCEPT ![1] = 0] ELSE @]
    /\ ret' = [ret EXCEPT ![c] =
                 [op |-> "addResult", value |-> "void", status |-> "normal"]]
    /\ pc' = [pc EXCEPT ![c] = "idle"]
    /\ UNCHANGED <<registered, cmdline, self, measuresAllocated, calls>>

\* Mutant: addResult rejects an empty score array.
addResultThrowsOnEmpty(c) ==
    /\ pc[c] = "addResult"
    /\ ret' = [ret EXCEPT ![c] =
                 [op |-> "addResult", value |-> "void",
                  status |-> IF frame[c].scores = << >> THEN "error" ELSE "normal"]]
    /\ pc' = [pc EXCEPT ![c] = "idle"]
    /\ UNCHANGED <<registered, cmdline, self, frame, measuresAllocated, calls>>

\* Mutant: addResult takes a per-object lock, waiting while another caller
\* is inside a method of the same evaluator.
addResultLocked(c) ==
    /\ pc[c] = "addResult"
    /\ \A d \in Callers \ {c} : pc[d] = "idle" \/ frame[d].on # frame[c].on
    /\ ret' = [ret EXCEPT ![c] =
                 [op |-> "addResult", value |-> "void", status |-> "normal"]]
    /\ pc' = [pc EXCEPT ![c] = "idle"]
    /\ UNCHANGED <<registered, cmdline, self, frame, measuresAllocated, calls>>

\* void NullEvaluator::addResult(const Instance&, double[]) { return; }
addResult(c) ==
    /\ pc[c] = "addResult"
    /\ ret' = [ret EXCEPT ![c] =
                 [op |-> "addResult", value |-> "void", status |-> "normal"]]
    /\ pc' = [pc EXCEPT ![c] = "idle"]
    /\ UNCHANGED <<registered, cmdline, self, frame, measuresAllocated, calls>>

\* Mutant: getMeasures hands out a pointer to a member once results came in.
getMeasuresReturnsMember(c) ==
    /\ pc[c] = "getMeasures"
    /\ ret' = [ret EXCEPT ![c] =
                 [op |-> "getMeasures",
                  value |-> IF calls[frame[c].on] > 0 THEN 1 ELSE nullptr,
                  status |-> "normal"]]
    /\ pc' = [pc EXCEPT ![c] = "idle"]
    /\ UNCHANGED <<registered, cmdline, self, frame, measuresAllocated, calls>>

\* Mutant: getMeasures allocates an empty Measures object and returns null
\* all the same (the object leaks).
getMeasuresAllocates(c) ==
    /\ pc[c] = "getMeasures"
    /\ measuresAllocated' = measuresAllocated + 1
    /\ ret' = [ret EXCEPT ![c] =
                 [op |-> "getMeasures", value |-> nullptr, status |-> "normal"]]
    /\ pc' = [pc EXCEPT ![c] = "idle"]
    /\ UNCHANGED <<registered, cmdline, self, frame, calls>>

\* Measures* NullEvaluator::getMeasures() { return nullptr; }
getMeasures(c) ==
    /\ pc[c] = "getMeasures"
    /\ ret' = [ret EXCEPT ![c] =
                 [op |-> "getMeasures", value |-> nullptr, status |-> "normal"]]
    /\ pc' = [pc EXCEPT ![c] = "idle"]
    /\ UNCHANGED <<registered, cmdline, self, frame, measuresAllocated, calls>>

\* Mutant: toString returns the empty string.
toStringEmpty(c) ==
    /\ pc[c] = "toString"
    /\ ret' = [ret EXCEPT ![c] =
                 [op |-> "toString", value |-> "", status |-> "normal"]]
    /\ pc' = [pc EXCEPT ![c] = "idle"]
    /\ UNCHANGED <<registered, cmdline, self, frame, measuresAllocated, calls>>

\* Mutant: toString reports the -f frequency when one was given.
toStringShowsFrequency(c) ==
    /\ pc[c] = "toString"
    /\ ret' = [ret EXCEPT ![c] =
                 [op |-> "toString",
                  value |-> IF cmdline[frame[c].on] = ""
                            THEN SingleSpace ELSE cmdline[frame[c].on],
                  status |-> "normal"]]
    /\ pc' = [pc EXCEPT ![c] = "idle"]
    /\ UNCHANGED <<registered, cmdline, self, frame, measuresAllocated, calls>>

\* string NullEvaluator::toString() { return " "; }
toString(c) ==
    /\ pc[c] = "toString"
    /\ ret' = [ret EXCEPT ![c] =
                 [op |-> "toString", value |-> SingleSpace, status |-> "normal"]]
    /\ pc' = [pc EXCEPT ![c] = "idle"]
    /\ UNCHANGED <<registered, cmdline, self, frame, measuresAllocated, calls>>

Next ==
    \/ \E e \in Evaluators : NullEvaluator(e)
    \/ \E c \in Callers, e \in Evaluators : CallAddResult(c, e)
    \/ \E c \in Callers, e \in Evaluators : CallGetMeasures(c, e)
    \/ \E c \in Callers, e \in Evaluators : CallToString(c, e)
    \/ \E c \in Callers : addResult(c)
    \/ \E c \in Callers : getMeasures(c)
    \/ \E c \in Callers : toString(c)

Spec == Init /\ [][Next]_vars

\* ------------------------------------------------------------ properties
Completed(c, op) == ret[c].op = op

\* C1: every completed getMeasures call returned the null pointer, whatever
\* addResult, getMeasures and toString calls came before it.
C1_GetMeasuresAbsent ==
    \A c \in Callers : Completed(c, "getMeasures") => ret[c].value = 0

\* Three addResult calls on an evaluator have completed and a getMeasures
\* call on it has returned.
C1_Witness ==
    \E c \in Callers :
        /\ Completed(c, "getMeasures")
        /\ calls[frame[c].on] >= 3
        /\ \A d \in Callers : pc[d] = "idle"

\* C2: a step of addResult changes neither the evaluators' member data nor
\* the allocated Measures objects, the registry or the parsed command line,
\* and the results of getMeasures and toString on one evaluator are the same
\* whether zero, one or many addResult calls preceded them.
C2_AddResultNoOp ==
    /\ [](\A c, d \in Callers :
            (ret[c].op = ret[d].op /\ frame[c].on = frame[d].on) => ret[c] = ret[d])
    /\ [][\A c \in Callers :
            addResult(c) => UNCHANGED <<self, measuresAllocated, registered, cmdline>>]_vars

\* One caller holds a getMeasures result on an evaluator; the other caller
\* has since completed an addResult on the same evaluator.
C2_Witness ==
    \E c, d \in Callers :
        /\ Completed(c, "getMeasures")
        /\ Completed(d, "addResult")
        /\ frame[c].on = frame[d].on
        /\ calls[frame[c].on] >= 2

\* C3: every completed toString call returned the string of one space.
C3_ToStringSingleSpace ==
    \A c \in Callers : Completed(c, "toString") => ret[c].value = " "

\* A toString call has returned on an evaluator that received addResult
\* calls, while the other caller completed a getMeasures call.
C3_Witness ==
    \E c, d \in Callers :
        /\ Completed(c, "toString")
        /\ calls[frame[c].on] > 0
        /\ Completed(d, "getMeasures")

\* C4: no operation fails: every completed call ended normally, every call
\* in progress can complete, and every evaluator not yet built can be built.
C4_NoFailure ==
    /\ \A c \in Callers : ret[c].op # "none" => ret[c].status = "normal"
    /\ \A c \in Callers : pc[c] = "addResult" => ENABLED addResult(c)
    /\ \A c \in Callers : pc[c] = "getMeasures" => ENABLED getMeasures(c)
    /\ \A c \in Callers : pc[c] = "toString" => ENABLED toString(c)
    /\ \A e \in Evaluators \ Constructed : ENABLED NullEvaluator(e)

\* Both evaluators are built, an addResult call with an empty score array
\* and a getMeasures call have completed.
C4_Witness ==
    /\ Constructed = Evaluators
    /\ \E c, d \in Callers :
          /\ Completed(c, "addResult")
          /\ frame[c].scores = << >>
          /\ Completed(d, "getMeasures")

\* C5: under every interleaving of the callers, a call in progress is never
\* blocked by another caller's call, each completed getMeasures returned
\* null and each completed toString one space, and only construction writes
\* the state the callers share.
C5_ConcurrentCallsIndependent ==
    /\ [](\A c \in Callers :
            /\ pc[c] = "addResult" => ENABLED addResult(c)
            /\ pc[c] = "getMeasures" => ENABLED getMeasures(c)
            /\ pc[c] = "toString" => ENABLED toString(c)
            /\ Completed(c, "getMeasures") => ret[c].value = 0
            /\ Completed(c, "toString") => ret[c].value = " ")
    /\ [][(\E e \in Evaluators : NullEvaluator(e))
            \/ UNCHANGED <<self, measuresAllocated, registered, cmdline>>]_vars

\* Two callers are inside methods of the same evaluator at the same time.
C5_Witness ==
    \E c, d \in Callers :
        /\ c # d
        /\ pc[c] = "addResult"
        /\ pc[d] \in {"addResult", "getMeasures", "toString"}
        /\ frame[c].on = frame[d].on

\* C6: the registry holds exactly the class name "NullEvaluator" with the
\* schema of type "Evaluator", name "NullEvaluator" and the one parameter
\* "-f" ("Frequency"), and calls of the same method return the same result
\* on evaluators whose -f arguments differ.
C6_FrequencyNeverRead ==
    /\ DOMAIN registered = {"NullEvaluator"}
    /\ registered["NullEvaluator"].type = "Evaluator"
    /\ registered["NullEvaluator"].name = "NullEvaluator"
    /\ DOMAIN registered["NullEvaluator"].parameter = {"-f"}
    /\ registered["NullEvaluator"].parameter["-f"] = "Frequency"
    /\ \A c, d \in Callers :
          (/\ ret[c].op # "none"
           /\ ret[c].op = ret[d].op
           /\ cmdline[frame[c].on] # cmdline[frame[d].on]) => ret[c] = ret[d]

\* toString has returned on one evaluator built without -f and on another
\* built with -f 1000.
C6_Witness ==
    \E c, d \in Callers :
        /\ Completed(c, "toString")
        /\ Completed(d, "toString")
        /\ cmdline[frame[c].on] = ""
        /\ cmdline[frame[d].on] = "1000"

\* C7: every constructed evaluator holds the member data construction gave
\* it (none), so all evaluators are in the same state, and the same method
\* returns the same result on evaluators with different call histories.
C7_OneState ==
    /\ \A e \in Constructed : self[e] = << >>
    /\ \A c, d \in Callers :
          (/\ ret[c].op # "none"
           /\ ret[c].op = ret[d].op
           /\ calls[frame[c].on] # calls[frame[d].on]) => ret[c] = ret[d]

\* getMeasures has returned on an evaluator that never received a result
\* and on one that received three.
C7_Witness ==
    \E c, d \in Callers :
        /\ Completed(c, "getMeasures")
        /\ Completed(d, "getMeasures")
        /\ calls[frame[c].on] = 0
        /\ calls[frame[d].on] = 3
        /\ self[frame[c].on] = self[frame[d].on]

\* C8: a step of addResult leaves the caller's instance and score array as
\* they were passed.
C8_ArgumentsUnchanged ==
    [][\A c \in Callers : addResult(c) => frame'[c] = frame[c]]_vars

\* addResult has completed on an empty score array and on a non-empty one
\* whose first score is not zero.
C8_Witness ==
    \E c, d \in Callers :
        /\ Completed(c, "addResult")
        /\ frame[c].scores = << >>
        /\ Completed(d, "addResult")
        /\ Len(frame[d].scores) > 0
        /\ frame[d].scores[1] = 1

\* C9: no Measures object is ever allocated.
C9_NoMeasuresAllocated == measuresAllocated = 0

\* getMeasures has returned to both callers, on an evaluator that received
\* results.
C9_Witness ==
    /\ \A c \in Callers : Completed(c, "getMeasures")
    /\ \E c \in Callers : calls[frame[c].on] > 0

====
